---- MODULE Spec2Model ----
\* A model of cmd/dca/main.go: the three-stage pipeline
\*   Reader -> InputChan -> Transformer -> OutputChan -> Writer
\* in both directions (encode: PCM -> DCA, decode: DCA -> PCM), the DCA
\* framing the Writer emits, and the Orchestrator's wait.
\*
\* One run uses either EncodeInputChan/EncodeOutputChan or
\* DecodeInputChan/DecodeOutputChan; the model calls the pair of the selected
\* direction InputChan and OutputChan.
EXTENDS Integers, Sequences, FiniteSets, TLC

\* ---------------------------------------------------------------- bounds

\* Samples per channel of one frame (flag -as). The source's values are 960,
\* 1920 and 2880; the model runs the same code on tiny frames.
FrameSize == 1

\* Audio channels (flag -ac, default 2).
Channels == 2

\* Capacity of each of the two channels (make(chan ..., 10)).
ChanCap == 10

\* Size in bytes of the bufio.Writer in front of os.Stdout. 16384 in the
\* source; scaled down so that records straddle flushes.
WBufSize == 5

\* Inputs: a short stream of up to ShortFrames frames (with or without a
\* trailing partial frame) and a long one of LongFrames whole frames, more
\* than the two channels hold.
ShortFrames == 3
LongFrames == 12

\* Short decode inputs are all byte strings over DecBytes of up to this length.
ShortDecodeBytes == 4

\* A Reader whose read failed can find err == nil in its check and keep
\* reading (see ReaderCheck), any number of times; the model follows it at
\* most this many times per run.
MaxMasked == 1

\* Length in bytes of the marshalled metadata.
JsonLen == 2

\* A failing write to os.Stdout accepts between 0 and MaxShortWrite bytes.
MaxShortWrite == 1

\* The environment fails (a read, a codec call, a write to os.Stdout) only
\* while fewer than MaxFailUnit units have passed the failing stage.
MaxFailUnit == 2

\* The current version of the DCA format.
FormatVersion == 1

\* The bitrate in kb/s that replaces a flag value out of range, and the
\* default of flag -ab.
DefaultBitrate == 64

\* Frames of the input of the runs that outlast both channels: more than the
\* two channels and the hands of the Reader and the Transformer hold
\* together (10 + 10 + 2).
StallFrames == 24

\* The values of flag -ab run from -MaxBitrateFlag to MaxBitrateFlag.
MaxBitrateFlag == 520

\* ---------------------------------------------------------------- values

Nil == "nil"
EOF == "EOF"
ErrUnexpectedEOF == "ErrUnexpectedEOF"
ReadErr == "read error"
WriteErr == "write error"
Unlimited == 0 - 1

Min(a, b) == IF a < b THEN a ELSE b

\* Samples of one PCM frame handed to the codec.
FrameLen == FrameSize * Channels

\* ---------------------------------------------------------------- encoding/binary

\* binary.LittleEndian.PutUint16 of the low 16 bits of v.
LE16(v) == << (v % 65536) % 256, (v % 65536) \div 256 >>

\* binary.LittleEndian.PutUint32 of an int32 v >= 0 (a length).
LE32(v) == << v % 256, (v \div 256) % 256, (v \div 65536) % 256, (v \div 16777216) % 256 >>

Uint16BE(b0, b1) == b1 + 256 * b0

\* binary.LittleEndian.Uint16.
Uint16LE(b0, b1) == b0 + 256 * b1

\* int16(x): the conversion keeps the low 16 bits, read as two's complement.
Int16(x) == LET u == x % 65536 IN IF u >= 32768 THEN u - 65536 ELSE u

\* The bytes binary.Write emits for a []int16 / the samples binary.Read
\* decodes from bytes.
RECURSIVE SamplesToBytes(_)
SamplesToBytes(pcm) ==
    IF pcm = << >> THEN << >> ELSE LE16(Head(pcm)) \o SamplesToBytes(Tail(pcm))

RECURSIVE BytesToSamples(_)
BytesToSamples(bs) ==
    IF Len(bs) < 2 THEN << >>
    ELSE << Int16(Uint16LE(bs[1], bs[2])) >> \o BytesToSamples(SubSeq(bs, 3, Len(bs)))

\* io.ReadFull of n bytes from stream s with pos bytes already consumed: the
\* error, the bytes delivered and the new position.
ReadFull(s, pos, n) ==
    LET have == Len(s) - pos
    IN IF n = 0 THEN [err |-> Nil, data |-> << >>, pos |-> pos]
       ELSE IF have >= n THEN [err |-> Nil, data |-> SubSeq(s, pos + 1, pos + n), pos |-> pos + n]
       ELSE IF have = 0 THEN [err |-> EOF, data |-> << >>, pos |-> pos]
       ELSE [err |-> ErrUnexpectedEOF, data |-> SubSeq(s, pos + 1, Len(s)), pos |-> Len(s)]

\* ---------------------------------------------------------------- bufio.Writer over os.Stdout

\* The Writer's view of its sink: buf and err are the bufio.Writer's buffer
\* and sticky error, out the bytes os.Stdout has accepted, left the bytes it
\* accepts before it fails for good (Unlimited: it does not fail).

\* os.Stdout.Write(p): writes all of p, or a prefix and fails.
SinkAccepts(w, p) == IF w.left = Unlimited THEN Len(p) ELSE Min(Len(p), w.left)

SinkWrite(w, p) ==
    LET n == SinkAccepts(w, p)
    IN [w EXCEPT !.out = @ \o SubSeq(p, 1, n),
                 !.left = IF @ = Unlimited THEN @ ELSE @ - n,
                 !.broken = @ \/ (n < Len(p))]

\* (*bufio.Writer).Flush.
Flush(w) ==
    IF w.err \/ w.buf = << >> THEN w
    ELSE LET n == SinkAccepts(w, w.buf)
             w1 == SinkWrite(w, w.buf)
         IN IF n < Len(w.buf)
            THEN [w1 EXCEPT !.buf = SubSeq(w.buf, n + 1, Len(w.buf)), !.err = TRUE]
            ELSE [w1 EXCEPT !.buf = << >>]

\* (*bufio.Writer).Write(p); the call returns w.err of the result.
RECURSIVE BufWrite(_, _)
BufWrite(w, p) ==
    IF Len(p) > WBufSize - Len(w.buf) /\ ~w.err
    THEN IF w.buf = << >>
         THEN \* large write, empty buffer: written directly from p
              LET n == SinkAccepts(w, p)
                  w1 == SinkWrite(w, p)
              IN BufWrite([w1 EXCEPT !.err = (n < Len(p))], SubSeq(p, n + 1, Len(p)))
         ELSE LET n == WBufSize - Len(w.buf)
                  w1 == [w EXCEPT !.buf = @ \o SubSeq(p, 1, n)]
              IN BufWrite(Flush(w1), SubSeq(p, n + 1, Len(p)))
    ELSE IF w.err THEN w
    ELSE [w EXCEPT !.buf = @ \o p]

\* The error binary.Write returns after writing through the bufio.Writer.
WriteError(w) == IF w.err THEN WriteErr ELSE Nil

\* ---------------------------------------------------------------- DCA framing

\* MagicBytes = fmt.Sprintf("DCA%d", FormatVersion), as bytes.
MagicBytes == << 68, 67, 65, 48 + FormatVersion >>

\* json.Marshal(Metadata): an object of JsonLen bytes.
MetadataJSON == [i \in 1..JsonLen |-> IF i = 1 THEN 123 ELSE IF i = JsonLen THEN 125 ELSE 32]

FrameLengthBytesBigEndian(opus) == << Int16(Len(opus)) \div 256, Int16(Len(opus)) % 256 >>

\* The two writes of encodeWriter's loop body for one opus frame.
FrameLengthBytes(opus) == LE16(Int16(Len(opus)))
FrameRecord(opus) == FrameLengthBytes(opus) \o opus

\* The records of a sequence of opus frames, as the loop writes them.
RECURSIVE RecordsOf(_)
RecordsOf(units) ==
    IF units = << >> THEN << >> ELSE FrameRecord(Head(units)) \o RecordsOf(Tail(units))

\* What encodeWriter writes before its loop when RawOutput is false.
ContainerHeader == MagicBytes \o LE32(Len(MetadataJSON)) \o MetadataJSON

\* ---------------------------------------------------------------- codec (layeh.com/gopus)

\* The codec is an external, stateful, lossy transform. The model's encoder
\* output depends on the call number n and on the samples, and varies in
\* length (1..3 bytes); the decoder returns FrameLen samples.
OpusEncode(n, pcm) == SubSeq(<< n % 256 >> \o SamplesToBytes(pcm), 1, 1 + (n % 3))

OpusDecode(n, opus) ==
    [i \in 1..FrameLen |->
        Int16(n * 9001 + i * 31 + (IF opus = << >> THEN 0 ELSE opus[Len(opus)]))]

\* ---------------------------------------------------------------- inputs

FrameBytes == 2 * FrameLen

\* PCM input of n bytes.
PcmStream(n) == [i \in 1..n |-> (i * 89) % 256]

EncodeLens ==
    { 0, 1, ShortFrames * FrameBytes, ShortFrames * FrameBytes + FrameBytes - 1,
      LongFrames * FrameBytes }

\* A well-formed raw DCA stream of k frames with payloads of 0..2 bytes.
DcaPayload(i) == [j \in 1..(i % 3) |-> (i * 7 + j) % 256]

RECURSIVE DcaStream(_)
DcaStream(k) ==
    IF k = 0 THEN << >> ELSE DcaStream(k - 1) \o LE16(Len(DcaPayload(k))) \o DcaPayload(k)

DecBytes == {0, 2}

DecodeInputs ==
    UNION { [1..n -> DecBytes] : n \in 0..ShortDecodeBytes } \cup { DcaStream(LongFrames) }

\* ---------------------------------------------------------------- state

VARIABLES
    Mode,        \* flag -mode: "encode" or "decode"
    RawOutput,   \* flag -raw
    InFile,      \* flag -i: "pipe:0" or a file name
    input,       \* the bytes of the Reader's source (os.Stdin or ffmpeg's stdout)
    frames,      \* history: the opus frames whose container a piped decode run reads
    Bitrate,     \* flag -ab, in kb/s
    OpusEncoderBitrate,   \* the bitrate set on OpusEncoder, in bits/s
    MetadataOpusBitrate,  \* Metadata.Opus.Bitrate, in bits/s (0: Metadata is not set up)
    err,         \* the package-level variable err
    InputChan,   \* EncodeInputChan / DecodeInputChan: [buf, closed]
    OutputChan,  \* EncodeOutputChan / DecodeOutputChan: [buf, closed]
    wg,          \* the WaitGroup's counter
    pcR,         \* the Reader's position
    inPos,       \* bytes of input the Reader has consumed
    rRes,        \* what the Reader's last read returned (encodeReader's local err when reading a file)
    InBuf,       \* the Reader's InBuf
    opuslen,     \* decodeReader's opuslen
    rSent,       \* history: the units the Reader sent, in order
    rLog,        \* what the Reader printed
    rMasked,     \* history: checks the Reader passed although its own read had failed
    rExit,       \* history: the position the Reader returned from
    srcBroken,   \* a read of the source has failed with an I/O error
    pcT,         \* the Transformer's position
    tOut,        \* the Transformer's opus / pcm
    tCalls,      \* calls of the codec so far
    tLog,        \* what the Transformer printed
    pcW,         \* the Writer's position
    wUnit,       \* the Writer's opus / pcm
    wbuf,        \* wbuf's buffered bytes
    wbufErr,     \* wbuf's sticky error
    stdout,      \* the bytes os.Stdout has accepted
    sinkBroken,  \* a write to os.Stdout has failed
    wRes,        \* what the Writer's last binary.Write returned
    wEmitted,    \* history: the units whose write returned no error, in order
    wLog,        \* what the Writer printed
    pcMain       \* main: "wait" in wg.Wait(), then "spin" (for Wait {}) or "exit"

cfgVars == << Mode, RawOutput, InFile, input, frames, Bitrate, OpusEncoderBitrate, MetadataOpusBitrate >>
rVars == << pcR, inPos, rRes, InBuf, opuslen, rSent, rLog, rMasked, rExit, srcBroken >>
tVars == << pcT, tOut, tCalls, tLog >>
wVars == << pcW, wUnit, wbuf, wbufErr, stdout, sinkBroken, wRes, wEmitted, wLog >>
vars == << cfgVars, err, InputChan, OutputChan, wg, rVars, tVars, wVars, pcMain >>

Pipe == "pipe:0"

ClampBitrateAbove(b) == IF b > 512 THEN DefaultBitrate ELSE b

\* if Bitrate < 1 || Bitrate > 512 { Bitrate = 64 }
ClampBitrate(b) == IF b < 1 \/ b > 512 THEN DefaultBitrate ELSE b

\* main's setup of the codec and of the metadata, for the flag value b:
\* OpusEncoder.SetBitrate(Bitrate * 1000), and Opus.Bitrate: Bitrate * 1000
\* in the Metadata of a non-raw encode run.
Configured(b) ==
    /\ Bitrate = ClampBitrate(b)
    /\ OpusEncoderBitrate = ClampBitrate(b) * 1000
    /\ MetadataOpusBitrate = IF RawOutput = FALSE /\ Mode = "encode" THEN ClampBitrate(b) * 1000 ELSE 0

\* make(chan T, 10)
NewChan == [buf |-> << >>, closed |-> FALSE]

\* The state once main has started the three goroutines of the direction.
Init ==
    /\ Mode \in {"encode", "decode"}
    /\ RawOutput \in (IF Mode = "encode" THEN BOOLEAN ELSE {FALSE})
    /\ InFile \in (IF Mode = "encode" THEN {Pipe, "file"} ELSE {Pipe})
    /\ input \in (IF Mode = "encode" THEN { PcmStream(n) : n \in EncodeLens } ELSE DecodeInputs)
    \* the long PCM stream is run from the pipe in raw mode only: every run of
    \* the stages from a file is also a run from the pipe
    /\ (Mode = "encode" /\ Len(input) > (ShortFrames + 1) * FrameBytes) => (InFile = Pipe /\ RawOutput)
    /\ frames = << >>
    /\ Configured(DefaultBitrate)
    /\ err = Nil
    /\ InputChan = NewChan
    /\ OutputChan = NewChan
    /\ wg = 3
    /\ pcR = IF Mode = "encode" THEN "start" ELSE "rlen"
    /\ inPos = 0
    /\ rRes = Nil
    /\ InBuf = << >>
    /\ opuslen = 0
    /\ rSent = << >>
    /\ rLog = ""
    /\ rMasked = 0
    /\ rExit = ""
    /\ srcBroken = FALSE
    /\ pcT = "recv"
    /\ tOut = << >>
    /\ tCalls = 0
    /\ tLog = ""
    /\ pcW = IF Mode = "encode" THEN "header" ELSE "recv"
    /\ wUnit = << >>
    /\ wbuf = << >>
    /\ wbufErr = FALSE
    /\ stdout = << >>
    /\ sinkBroken = FALSE
    /\ wRes = Nil
    /\ wEmitted = << >>
    /\ wLog = ""
    /\ pcMain = "wait"

\* ---------------------------------------------------------------- channels

CanSendAlways(ch) == TRUE

\* ch <- v can proceed: the buffer has room.
CanSend(ch) == Len(ch.buf) < ChanCap
Send(ch, v) == [ch EXCEPT !.buf = Append(@, v)]

\* v, ok := <-ch can proceed: a value is buffered, or the channel is closed.
CanRecv(ch) == ch.buf # << >> \/ ch.closed
RecvOk(ch) == ch.buf # << >>
RecvValueNewest(ch) == ch.buf[Len(ch.buf)]
RecvValue(ch) == Head(ch.buf)
RecvRest(ch) == [ch EXCEPT !.buf = Tail(@)]

LeaveOpen(ch) == ch

\* close(ch)
Close(ch) == [ch EXCEPT !.closed = TRUE]

\* ---------------------------------------------------------------- Reader

\* make([]T, n)
Zeros(n) == [i \in 1..n |-> 0]

\* One binary.Read of n bytes from the source: io.ReadFull, or an I/O
\* failure. A source that has failed keeps failing.
CanFail(n) == n > 0 /\ (srcBroken \/ Len(rSent) < MaxFailUnit)
Fails(n) == IF n > 0 /\ srcBroken THEN {TRUE} ELSE IF CanFail(n) THEN BOOLEAN ELSE {FALSE}

SourceRead(n, fail) ==
    IF fail THEN [err |-> ReadErr, data |-> << >>, pos |-> inPos]
    ELSE ReadFull(input, inPos, n)

\* The Reader's deferred function: close(InputChan); wg.Done().
ReaderReturn(log) ==
    /\ pcR' = "done"
    /\ rExit' = pcR
    /\ rLog' = log
    /\ InputChan' = Close(InputChan)
    /\ wg' = wg - 1

\* The error encodeReader's checks read: the package-level err when reading
\* the pipe, the local err of the file branch otherwise.
ReaderErr == IF Mode = "encode" /\ InFile # Pipe THEN rRes ELSE err

\* encodeReader, file input: ffmpeg.StdoutPipe() and ffmpeg.Start().
encodeReaderStart ==
    /\ Mode = "encode" /\ pcR = "start"
    /\ \/ /\ pcR' = "read"
          /\ UNCHANGED << rLog, rExit, InputChan, wg >>
       \/ /\ InFile # Pipe
          /\ ReaderReturn("RunStart Error")
    /\ UNCHANGED << cfgVars, err, OutputChan, inPos, rRes, InBuf, opuslen, rSent, rMasked, srcBroken, tVars, wVars, pcMain >>

\* InBuf := make([]int16, FrameSize*Channels); err = binary.Read(..., &InBuf)
encodeReaderRead ==
    /\ Mode = "encode" /\ pcR = "read"
    /\ \E fail \in Fails(FrameBytes) :
         LET r == SourceRead(FrameBytes, fail)
         IN /\ InBuf' = IF r.err = Nil THEN BytesToSamples(r.data) ELSE Zeros(FrameLen)
            /\ inPos' = r.pos
            /\ rRes' = r.err
            /\ srcBroken' = (srcBroken \/ fail)
            /\ err' = IF InFile = Pipe THEN r.err ELSE err
    /\ pcR' = "check"
    /\ UNCHANGED << cfgVars, InputChan, OutputChan, wg, opuslen, rSent, rLog, rMasked, rExit, tVars, wVars, pcMain >>

\* if err == io.EOF || err == io.ErrUnexpectedEOF { return }; if err != nil { ...; return }
ReaderCheck(next) ==
    /\ IF ReaderErr \in {EOF, ErrUnexpectedEOF} THEN ReaderReturn(rLog) /\ UNCHANGED rMasked
       ELSE IF ReaderErr # Nil THEN ReaderReturn("error reading") /\ UNCHANGED rMasked
       ELSE /\ pcR' = next
            /\ rRes # Nil => rMasked < MaxMasked
            /\ rMasked' = IF rRes # Nil THEN rMasked + 1 ELSE rMasked
            /\ UNCHANGED << rLog, rExit, InputChan, wg >>
    /\ UNCHANGED << cfgVars, err, OutputChan, inPos, rRes, InBuf, opuslen, rSent, srcBroken, tVars, wVars, pcMain >>

encodeReaderCheck ==
    /\ Mode = "encode" /\ pcR = "check"
    /\ ReaderCheck("send")

\* InputChan <- InBuf
ReaderSend(next) ==
    /\ CanSend(InputChan)
    /\ InputChan' = Send(InputChan, InBuf)
    /\ rSent' = Append(rSent, InBuf)
    /\ pcR' = next
    /\ UNCHANGED << cfgVars, err, OutputChan, wg, inPos, rRes, InBuf, opuslen, rLog, rMasked, rExit, srcBroken, tVars, wVars, pcMain >>

encodeReaderSend ==
    /\ Mode = "encode" /\ pcR = "send"
    /\ ReaderSend("read")

\* err = binary.Read(rbuf, binary.LittleEndian, &opuslen)
decodeReaderLen ==
    /\ Mode = "decode" /\ pcR = "rlen"
    /\ \E fail \in Fails(2) :
         LET r == SourceRead(2, fail)
         IN /\ opuslen' = IF r.err = Nil THEN Uint16LE(r.data[1], r.data[2]) ELSE opuslen
            /\ inPos' = r.pos
            /\ rRes' = r.err
            /\ srcBroken' = (srcBroken \/ fail)
            /\ err' = r.err
    /\ pcR' = "chklen"
    /\ UNCHANGED << cfgVars, InputChan, OutputChan, wg, InBuf, rSent, rLog, rMasked, rExit, tVars, wVars, pcMain >>

decodeReaderCheckLen ==
    /\ Mode = "decode" /\ pcR = "chklen"
    /\ ReaderCheck("rpay")

\* InBuf := make([]byte, opuslen); err = binary.Read(rbuf, binary.LittleEndian, &InBuf)
decodeReaderPayload ==
    /\ Mode = "decode" /\ pcR = "rpay"
    /\ \E fail \in Fails(opuslen) :
         LET r == SourceRead(opuslen, fail)
         IN /\ InBuf' = IF r.err = Nil THEN r.data ELSE Zeros(opuslen)
            /\ inPos' = r.pos
            /\ rRes' = r.err
            /\ srcBroken' = (srcBroken \/ fail)
            /\ err' = r.err
    /\ pcR' = "chkpay"
    /\ UNCHANGED << cfgVars, InputChan, OutputChan, wg, opuslen, rSent, rLog, rMasked, rExit, tVars, wVars, pcMain >>

decodeReaderCheckPayload ==
    /\ Mode = "decode" /\ pcR = "chkpay"
    /\ ReaderCheck("send")

decodeReaderSend ==
    /\ Mode = "decode" /\ pcR = "send"
    /\ ReaderSend("rlen")

\* ---------------------------------------------------------------- Transformer

\* The Transformer's deferred function: close(OutputChan); wg.Done().
TransformerReturn(log) ==
    /\ pcT' = "done"
    /\ tLog' = log
    /\ OutputChan' = Close(OutputChan)
    /\ wg' = wg - 1

\* The codec call of the run's direction: OpusEncoder.Encode(pcm, FrameSize,
\* MaxBytes) or OpusDecoder.Decode(opus, FrameSize, false), when it succeeds.
Transform(n, unit) == IF Mode = "encode" THEN OpusEncode(n, unit) ELSE OpusDecode(n, unit)

\* v, ok := <-InputChan; if !ok { return }; out, err := codec(v); if err != nil { ...; return }
TransformerRecv(errLog) ==
    /\ pcT = "recv"
    /\ CanRecv(InputChan)
    /\ IF RecvOk(InputChan)
       THEN /\ InputChan' = RecvRest(InputChan)
            /\ tCalls' = tCalls + 1
            /\ \/ /\ tOut' = Transform(tCalls + 1, RecvValue(InputChan))
                  /\ pcT' = "send"
                  /\ UNCHANGED << tLog, OutputChan, wg >>
               \/ /\ tCalls < MaxFailUnit
                  /\ TransformerReturn(errLog)
                  /\ UNCHANGED tOut
       ELSE /\ TransformerReturn(tLog)
            /\ UNCHANGED << InputChan, tCalls, tOut >>
    /\ UNCHANGED << cfgVars, err, rVars, wVars, pcMain >>

\* OutputChan <- out
TransformerSend ==
    /\ pcT = "send"
    /\ CanSend(OutputChan)
    /\ OutputChan' = Send(OutputChan, tOut)
    /\ pcT' = "recv"
    /\ UNCHANGED << cfgVars, err, InputChan, wg, rVars, tOut, tCalls, tLog, wVars, pcMain >>

encoderRecv == Mode = "encode" /\ TransformerRecv("Encoding Error")
encoderSend == Mode = "encode" /\ TransformerSend
decoderRecv == Mode = "decode" /\ TransformerRecv("Decoding Error")
decoderSend == Mode = "decode" /\ TransformerSend

\* ---------------------------------------------------------------- Writer

\* The Writer's sink as the record the bufio operators work on; a write that
\* fails in this step accepts `budget` more bytes.
Sink(budget) ==
    [buf |-> wbuf, err |-> wbufErr, out |-> stdout, broken |-> sinkBroken,
     left |-> IF sinkBroken THEN 0 ELSE budget]

Budgets ==
    IF Len(wEmitted) < MaxFailUnit THEN {Unlimited} \cup (0..MaxShortWrite) ELSE {Unlimited}

SetSink(w) ==
    /\ wbuf' = w.buf
    /\ wbufErr' = w.err
    /\ stdout' = w.out
    /\ sinkBroken' = w.broken

\* The Writer's deferred functions: wbuf.Flush(); wg.Done().
WriterReturn(w, log) ==
    /\ pcW' = "done"
    /\ wLog' = log
    /\ SetSink(Flush(w))
    /\ wg' = wg - 1

WritesHeaderAlways == TRUE

\* if RawOutput == false { ... }
WritesHeader == RawOutput = FALSE

\* encodeWriter before its loop: the magic bytes go straight to os.Stdout
\* (fmt.Print), the metadata length and the metadata through wbuf.
encodeWriterHeader ==
    /\ Mode = "encode" /\ pcW = "header"
    /\ \E budget \in Budgets :
         IF ~WritesHeader THEN
            /\ pcW' = "recv"
            /\ UNCHANGED << wbuf, wbufErr, stdout, sinkBroken, wLog, wg >>
         ELSE
            LET w1 == SinkWrite(Sink(budget), MagicBytes)
                w2 == BufWrite(w1, LE32(Len(MetadataJSON)))
                w3 == BufWrite(w2, MetadataJSON)
            IN IF WriteError(w2) # Nil
               THEN WriterReturn(w2, "error writing output")
               ELSE /\ SetSink(w3)
                    /\ pcW' = "recv"
                    /\ UNCHANGED << wLog, wg >>
    /\ UNCHANGED << cfgVars, err, InputChan, OutputChan, rVars, tVars, wUnit, wRes, wEmitted, pcMain >>

\* opus, ok := <-OutputChan; if !ok { return }
\* opuslen = int16(len(opus)); err = binary.Write(wbuf, binary.LittleEndian, &opuslen)
encodeWriterRecv ==
    /\ Mode = "encode" /\ pcW = "recv"
    /\ CanRecv(OutputChan)
    /\ \E budget \in Budgets :
         IF RecvOk(OutputChan)
         THEN LET w1 == BufWrite(Sink(budget), FrameLengthBytes(RecvValue(OutputChan)))
              IN /\ OutputChan' = RecvRest(OutputChan)
                 /\ wUnit' = RecvValue(OutputChan)
                 /\ SetSink(w1)
                 /\ err' = WriteError(w1)
                 /\ wRes' = WriteError(w1)
                 /\ pcW' = "chklen"
                 /\ UNCHANGED << wLog, wg >>
         ELSE /\ WriterReturn(Sink(budget), wLog)
              /\ UNCHANGED << OutputChan, wUnit, err, wRes >>
    /\ UNCHANGED << cfgVars, InputChan, rVars, tVars, wEmitted, pcMain >>

\* if err != nil { ...; return }
WriterCheck(next) ==
    /\ \E budget \in Budgets :
         IF err # Nil
         THEN WriterReturn(Sink(budget), "error writing output")
         ELSE /\ pcW' = next
              /\ UNCHANGED << wbuf, wbufErr, stdout, sinkBroken, wLog, wg >>
    /\ UNCHANGED << cfgVars, err, InputChan, OutputChan, rVars, tVars, wUnit, wRes, wEmitted, pcMain >>

encodeWriterCheckLen ==
    /\ Mode = "encode" /\ pcW = "chklen"
    /\ WriterCheck("wpay")

\* err = binary.Write(wbuf, binary.LittleEndian, &unit)
WriterWrite(bytes, next) ==
    /\ \E budget \in Budgets :
         LET w1 == BufWrite(Sink(budget), bytes)
         IN /\ SetSink(w1)
            /\ err' = WriteError(w1)
            /\ wRes' = WriteError(w1)
            /\ wEmitted' = IF WriteError(w1) = Nil THEN Append(wEmitted, wUnit) ELSE wEmitted
    /\ pcW' = next
    /\ UNCHANGED << cfgVars, InputChan, OutputChan, wg, rVars, tVars, wUnit, wLog, pcMain >>

encodeWriterPayload ==
    /\ Mode = "encode" /\ pcW = "wpay"
    /\ WriterWrite(wUnit, "chkpay")

encodeWriterCheckPayloadThenHeader ==
    /\ Mode = "encode" /\ pcW = "chkpay"
    /\ WriterCheck("header")

encodeWriterCheckPayload ==
    /\ Mode = "encode" /\ pcW = "chkpay"
    /\ WriterCheck("recv")

\* pcm, ok := <-OutputChan; if !ok { return }
decodeWriterRecv ==
    /\ Mode = "decode" /\ pcW = "recv"
    /\ CanRecv(OutputChan)
    /\ IF RecvOk(OutputChan)
       THEN /\ OutputChan' = RecvRest(OutputChan)
            /\ wUnit' = RecvValue(OutputChan)
            /\ pcW' = "wpay"
            /\ UNCHANGED << wbuf, wbufErr, stdout, sinkBroken, wLog, wg >>
       ELSE /\ \E budget \in Budgets : WriterReturn(Sink(budget), wLog)
            /\ UNCHANGED << OutputChan, wUnit >>
    /\ UNCHANGED << cfgVars, err, InputChan, rVars, tVars, wRes, wEmitted, pcMain >>

\* err = binary.Write(wbuf, binary.LittleEndian, &pcm)
decodeWriterWrite ==
    /\ Mode = "decode" /\ pcW = "wpay"
    /\ WriterWrite(SamplesToBytes(wUnit), "chkpay")

decodeWriterCheck ==
    /\ Mode = "decode" /\ pcW = "chkpay"
    /\ WriterCheck("recv")

\* ---------------------------------------------------------------- Orchestrator

\* wg.Wait() returns once the three stages have called wg.Done(); then
\* for Wait { } keeps the process alive, or main returns.
WaitDoneForTwo == wg <= 1

\* wg.Add(3) ... wg.Wait()
WaitDone == wg = 0

mainWait ==
    /\ pcMain = "wait"
    /\ WaitDone
    /\ \E Wait \in BOOLEAN : pcMain' = IF Wait THEN "spin" ELSE "exit"
    /\ UNCHANGED << cfgVars, err, InputChan, OutputChan, wg, rVars, tVars, wVars >>

Next ==
    \/ encodeReaderStart \/ encodeReaderRead \/ encodeReaderCheck \/ encodeReaderSend
    \/ decodeReaderLen \/ decodeReaderCheckLen \/ decodeReaderPayload
    \/ decodeReaderCheckPayload \/ decodeReaderSend
    \/ encoderRecv \/ encoderSend \/ decoderRecv \/ decoderSend
    \/ encodeWriterHeader \/ encodeWriterRecv \/ encodeWriterCheckLen
    \/ encodeWriterPayload \/ encodeWriterCheckPayload
    \/ decodeWriterRecv \/ decodeWriterWrite \/ decodeWriterCheck
    \/ mainWait

Spec == Init /\ [][Next]_vars

\* ---------------------------------------------------------------- encode output piped into decode

\* The framing of the two directions is exercised on frames of chosen
\* lengths: the encode Writer drains a closed EncodeOutputChan holding them
\* (Reader and encoder have returned), and its output is the standard input
\* of a second run of the program in decode mode.

\* A payload of n bytes.
BigFrame(n) == [i \in 1..n |-> 255]

\* Payload lengths around the limits of the two 16-bit length types.
BigLens == {32768, 65535, 65536}

SmallFrames == { << >>, << 9 >>, << 2, 0 >> }

\* What EncodeOutputChan holds: up to two small frames, or one big frame (in
\* raw mode: the header does not touch the frame records).
SmallFrameSeqs == UNION { [1..n -> SmallFrames] : n \in 0..2 }

BigFrameSeqs == { << BigFrame(n) >> : n \in BigLens }

FramingInit ==
    /\ Mode = "encode"
    /\ RawOutput \in BOOLEAN
    /\ InFile = Pipe
    /\ input = << >>
    /\ \/ frames \in SmallFrameSeqs
       \/ frames \in BigFrameSeqs /\ RawOutput
    /\ Configured(DefaultBitrate)
    /\ err = Nil
    /\ InputChan = Close(NewChan)
    /\ OutputChan = Close([NewChan EXCEPT !.buf = frames])
    /\ wg = 1
    /\ pcR = "done"
    /\ inPos = 0
    /\ rRes = EOF
    /\ InBuf = << >>
    /\ opuslen = 0
    /\ rSent = << >>
    /\ rLog = ""
    /\ rMasked = 0
    /\ rExit = "check"
    /\ srcBroken = FALSE
    /\ pcT = "done"
    /\ tOut = << >>
    /\ tCalls = Len(frames)
    /\ tLog = ""
    /\ pcW = "header"
    /\ wUnit = << >>
    /\ wbuf = << >>
    /\ wbufErr = FALSE
    /\ stdout = << >>
    /\ sinkBroken = FALSE
    /\ wRes = Nil
    /\ wEmitted = << >>
    /\ wLog = ""
    /\ pcMain = "wait"

\* The encode run has exited; main of the decode run has started its three
\* goroutines, with the encode run's output as os.Stdin.
pipeToDecode ==
    /\ Mode = "encode" /\ pcMain = "exit"
    /\ Mode' = "decode"
    /\ RawOutput' = FALSE
    /\ input' = stdout
    /\ err' = Nil
    /\ InputChan' = NewChan
    /\ OutputChan' = NewChan
    /\ wg' = 3
    /\ pcR' = "rlen"
    /\ inPos' = 0
    /\ rRes' = Nil
    /\ InBuf' = << >>
    /\ opuslen' = 0
    /\ rSent' = << >>
    /\ rLog' = ""
    /\ rMasked' = 0
    /\ rExit' = ""
    /\ srcBroken' = FALSE
    /\ pcT' = "recv"
    /\ tOut' = << >>
    /\ tCalls' = 0
    /\ tLog' = ""
    /\ pcW' = "recv"
    /\ wUnit' = << >>
    /\ wbuf' = << >>
    /\ wbufErr' = FALSE
    /\ stdout' = << >>
    /\ sinkBroken' = FALSE
    /\ wRes' = Nil
    /\ wEmitted' = << >>
    /\ wLog' = ""
    /\ pcMain' = "wait"
    /\ MetadataOpusBitrate' = 0
    /\ UNCHANGED << InFile, frames, Bitrate, OpusEncoderBitrate >>

FramingNext ==
    \/ encodeWriterHeader \/ encodeWriterRecv \/ encodeWriterCheckLen
    \/ encodeWriterPayload \/ encodeWriterCheckPayload
    \/ mainWait \/ pipeToDecode
    \/ decodeReaderLen \/ decodeReaderCheckLen \/ decodeReaderPayload
    \/ decodeReaderCheckPayload \/ decodeReaderSend
    \/ decoderRecv \/ decoderSend
    \/ decodeWriterRecv \/ decodeWriterWrite \/ decodeWriterCheck

FramingSpec == FramingInit /\ [][FramingNext]_vars

\* ---------------------------------------------------------------- decode of a container with header

\* A decode run whose standard input is the output of a non-raw encode run:
\* header, then the records of a few small frames or of one frame long
\* enough for the stream to hold the payload the Reader asks for first.
SmallContainerFrames == { << >>, << << 9 >> >>, << << 2, 0 >>, << >> >> }

BigContainerFrames == { << BigFrame(Uint16LE(MagicBytes[1], MagicBytes[2])) >> }

HeaderedInit ==
    /\ Mode = "decode"
    /\ RawOutput = FALSE
    /\ InFile = Pipe
    /\ \/ frames \in SmallContainerFrames
       \/ frames \in BigContainerFrames
    /\ input = ContainerHeader \o RecordsOf(frames)
    /\ Configured(DefaultBitrate)
    /\ err = Nil
    /\ InputChan = NewChan
    /\ OutputChan = NewChan
    /\ wg = 3
    /\ pcR = "rlen"
    /\ inPos = 0
    /\ rRes = Nil
    /\ InBuf = << >>
    /\ opuslen = 0
    /\ rSent = << >>
    /\ rLog = ""
    /\ rMasked = 0
    /\ rExit = ""
    /\ srcBroken = FALSE
    /\ pcT = "recv"
    /\ tOut = << >>
    /\ tCalls = 0
    /\ tLog = ""
    /\ pcW = "recv"
    /\ wUnit = << >>
    /\ wbuf = << >>
    /\ wbufErr = FALSE
    /\ stdout = << >>
    /\ sinkBroken = FALSE
    /\ wRes = Nil
    /\ wEmitted = << >>
    /\ wLog = ""
    /\ pcMain = "wait"

HeaderedNext ==
    \/ decodeReaderLen \/ decodeReaderCheckLen \/ decodeReaderPayload
    \/ decodeReaderCheckPayload \/ decodeReaderSend
    \/ decoderRecv \/ decoderSend
    \/ decodeWriterRecv \/ decodeWriterWrite \/ decodeWriterCheck
    \/ mainWait

HeaderedSpec == HeaderedInit /\ [][HeaderedNext]_vars

\* ---------------------------------------------------------------- a long encode run

\* A raw encode run from the pipe whose input holds StallFrames frames.
StallInit ==
    /\ Mode = "encode"
    /\ RawOutput = TRUE
    /\ InFile = Pipe
    /\ input = PcmStream(StallFrames * FrameBytes)
    /\ frames = << >>
    /\ Configured(DefaultBitrate)
    /\ err = Nil
    /\ InputChan = NewChan
    /\ OutputChan = NewChan
    /\ wg = 3
    /\ pcR = "start"
    /\ inPos = 0
    /\ rRes = Nil
    /\ InBuf = << >>
    /\ opuslen = 0
    /\ rSent = << >>
    /\ rLog = ""
    /\ rMasked = 0
    /\ rExit = ""
    /\ srcBroken = FALSE
    /\ pcT = "recv"
    /\ tOut = << >>
    /\ tCalls = 0
    /\ tLog = ""
    /\ pcW = "header"
    /\ wUnit = << >>
    /\ wbuf = << >>
    /\ wbufErr = FALSE
    /\ stdout = << >>
    /\ sinkBroken = FALSE
    /\ wRes = Nil
    /\ wEmitted = << >>
    /\ wLog = ""
    /\ pcMain = "wait"

StallNext ==
    \/ encodeReaderStart \/ encodeReaderRead \/ encodeReaderCheck \/ encodeReaderSend
    \/ encoderRecv \/ encoderSend
    \/ encodeWriterHeader \/ encodeWriterRecv \/ encodeWriterCheckLen
    \/ encodeWriterPayload \/ encodeWriterCheckPayload
    \/ mainWait

StallSpec == StallInit /\ [][StallNext]_vars

\* ---------------------------------------------------------------- main's setup

BitrateFlags == (0 - MaxBitrateFlag)..MaxBitrateFlag

\* The state after flag.Parse(), for every value of -ab.
SetupInit ==
    /\ Mode \in {"encode", "decode"}
    /\ RawOutput \in BOOLEAN
    /\ InFile = Pipe
    /\ input = << >>
    /\ frames = << >>
    /\ Bitrate \in BitrateFlags
    /\ OpusEncoderBitrate = 0
    /\ MetadataOpusBitrate = 0
    /\ err = Nil
    /\ InputChan = NewChan
    /\ OutputChan = NewChan
    /\ wg = 0
    /\ pcR = IF Mode = "encode" THEN "start" ELSE "rlen"
    /\ inPos = 0
    /\ rRes = Nil
    /\ InBuf = << >>
    /\ opuslen = 0
    /\ rSent = << >>
    /\ rLog = ""
    /\ rMasked = 0
    /\ rExit = ""
    /\ srcBroken = FALSE
    /\ pcT = "recv"
    /\ tOut = << >>
    /\ tCalls = 0
    /\ tLog = ""
    /\ pcW = IF Mode = "encode" THEN "header" ELSE "recv"
    /\ wUnit = << >>
    /\ wbuf = << >>
    /\ wbufErr = FALSE
    /\ stdout = << >>
    /\ sinkBroken = FALSE
    /\ wRes = Nil
    /\ wEmitted = << >>
    /\ wLog = ""
    /\ pcMain = "setup"

\* main from gopus.NewEncoder to wg.Add(3) and the go statements.
mainSetup ==
    /\ pcMain = "setup"
    /\ Bitrate' = ClampBitrate(Bitrate)
    /\ OpusEncoderBitrate' = Bitrate' * 1000
    /\ MetadataOpusBitrate' =
           IF RawOutput = FALSE /\ Mode = "encode" THEN Bitrate' * 1000 ELSE MetadataOpusBitrate
    /\ wg' = 3
    /\ pcMain' = "wait"
    /\ UNCHANGED << Mode, RawOutput, InFile, input, frames, err, InputChan, OutputChan, rVars, tVars, wVars >>

SetupNext == mainSetup

SetupSpec == SetupInit /\ [][SetupNext]_vars

\* ---------------------------------------------------------------- properties

IsPrefix(a, b) == Len(a) <= Len(b) /\ a = SubSeq(b, 1, Len(a))

\* Whole frames in the input of an encode run.
CompleteFrames == Len(input) \div FrameBytes

InputFrame(i) == BytesToSamples(SubSeq(input, (i - 1) * FrameBytes + 1, i * FrameBytes))

\* C1: in either direction the units the Writer has emitted are, one for one
\* and in order, the transforms of the first units the Reader enqueued.
C1_FifoEndToEnd ==
    /\ Len(wEmitted) <= Len(rSent)
    /\ \A i \in 1..Len(wEmitted) : wEmitted[i] = Transform(i, rSent[i])

C1_Witness ==
    /\ Len(wEmitted) >= 3
    /\ Len(rSent) > Len(wEmitted)
    /\ Len(OutputChan.buf) >= 2

\* C2: an encode run from standard input without read failure, codec error or
\* write failure ends with exactly one frame record emitted per complete
\* input frame.
C2_NoDataLoss ==
    (/\ Mode = "encode" /\ InFile = Pipe
     /\ pcW = "done"
     /\ ~srcBroken /\ tLog = "" /\ ~sinkBroken)
    => Len(wEmitted) = CompleteFrames

\* C3: the channels are the only state the stages share: the error a stage
\* tests after a read or a write is the result of its own read or write.
C3_OnlyChannelsShared ==
    /\ pcR \in {"check", "chklen", "chkpay"} => ReaderErr = rRes
    /\ pcW \in {"chklen", "chkpay"} => err = wRes

\* The records of the first n units the Reader enqueued, encoded in order.
RECURSIVE FrameRecords(_)
FrameRecords(n) ==
    IF n = 0 THEN << >> ELSE FrameRecords(n - 1) \o FrameRecord(OpusEncode(n, rSent[n]))

C6_BoundedBlockingChannels ==
    /\ Len(InputChan.buf) <= 10
    /\ Len(OutputChan.buf) <= 10
    /\ (pcR = "send" /\ Len(InputChan.buf) = 10) => ~ENABLED (encodeReaderSend \/ decodeReaderSend)
    /\ (pcT = "send" /\ Len(OutputChan.buf) = 10) => ~ENABLED (encoderSend \/ decoderSend)
    /\ (pcT = "recv" /\ InputChan.buf = << >> /\ ~InputChan.closed) =>
           ~ENABLED (encoderRecv \/ decoderRecv)
    /\ (pcW = "recv" /\ OutputChan.buf = << >> /\ ~OutputChan.closed) =>
           ~ENABLED (encodeWriterRecv \/ decodeWriterRecv)

C6_Witness ==
    /\ pcR = "send" /\ Len(InputChan.buf) = 10
    /\ pcW = "recv" /\ OutputChan.buf = << >> /\ ~OutputChan.closed

\* C7: every unit the encode Reader enqueued is a whole frame of the input:
\* the i-th unit is the i-th FrameSize x Channels samples of the input
\* (stated for the runs whose reads end with end-of-stream, not with an I/O
\* failure).
C7_OnlyWholeInputFrames ==
    (Mode = "encode" /\ ~srcBroken) =>
        \A i \in 1..Len(rSent) : i <= CompleteFrames /\ rSent[i] = InputFrame(i)

\* C8: the decode Reader ends silently on end-of-stream before a length
\* prefix, and with an error message on end-of-stream inside a payload.
C8_MalformedStreamSurfaced ==
    (Mode = "decode" /\ pcR = "done") =>
        /\ (rExit = "chklen" /\ rRes = EOF /\ err = EOF) => rLog = ""
        /\ (rExit = "chkpay" /\ rRes \in {EOF, ErrUnexpectedEOF}) => rLog # ""

\* The model does not follow a Reader past MaxMasked masked failures.
ReaderCutOff ==
    /\ pcR \in {"check", "chklen", "chkpay"}
    /\ ReaderErr = Nil /\ rRes # Nil /\ rMasked >= MaxMasked

\* C9: without codec error and without write failure the run completes: as
\* long as main waits, some stage can still take a step.
C9_RunCompletes ==
    (tLog = "" /\ ~sinkBroken /\ ~ReaderCutOff) => (pcMain # "wait" \/ ENABLED Next)

\* The hazard of C10: the Transformer has returned on a codec error and the
\* Reader stands at its send with the input channel full.
Hazard ==
    /\ pcT = "done" /\ tLog # ""
    /\ pcR = "send" /\ Len(InputChan.buf) = 10

\* C10: the hazard is reachable, and once reached it never ends: the Reader
\* cannot send, the channel stays full, and main stays in wg.Wait().
C10_HazardIsForever ==
    /\ [](Hazard => (pcMain = "wait" /\ wg >= 1 /\ ~ENABLED (encodeReaderSend \/ decodeReaderSend)))
    /\ [][Hazard => Hazard']_vars

C10_Witness ==
    /\ Hazard
    /\ Mode = "encode"
    /\ Len(rSent) = tCalls + 10
    /\ ~InputChan.closed
    /\ pcW = "done"

\* C11: raw-mode framing round trip. For frames of 0..65535 bytes, the raw
\* encode Writer that ends without failure has written the frames' records
\* and nothing else; the decode Reader given that stream delivers exactly
\* those payloads, in order, and ends silently at end-of-stream, at a frame
\* boundary, with every byte consumed as a length prefix or a payload.
C11_RawRoundTrip ==
    (\A i \in 1..Len(frames) : Len(frames[i]) <= 65535) =>
        /\ (Mode = "encode" /\ RawOutput /\ pcW = "done" /\ wLog = "" /\ ~sinkBroken) =>
               stdout = RecordsOf(frames)
        /\ (Mode = "decode" /\ input = RecordsOf(frames) /\ ~srcBroken) =>
               /\ IsPrefix(rSent, frames)
               /\ pcR = "done" =>
                      /\ rSent = frames
                      /\ rLog = ""
                      /\ inPos = Len(input)

\* C12: when the encode Writer has stopped on a failure of one of its frame
\* writes, the bytes os.Stdout accepted end on a frame-record boundary: they
\* are the header (non-raw) and a whole number of frame records.
C12_NoSplitFrame ==
    (Mode = "encode" /\ pcW = "done" /\ wLog # "" /\ wRes = WriteErr) =>
        LET hdr == IF RawOutput THEN << >> ELSE ContainerHeader
        IN Len(stdout) >= Len(hdr) =>
               \E k \in 0..Len(rSent) : stdout = hdr \o FrameRecords(k)

\* C13: bitrate clamping. For every value b of flag -ab, main's setup
\* configures the encoder with b * 1000 bits/s when 1 <= b <= 512 and with
\* 64000 bits/s otherwise, and records the same value in the metadata of a
\* non-raw encode run; 0, 513 and -5 give 64000, 1 and 512 are kept.
C13_BitrateClamped ==
    [][mainSetup =>
        LET b == Bitrate
            want == IF 1 <= b /\ b <= 512 THEN b * 1000 ELSE 64000
        IN /\ OpusEncoderBitrate' = want
           /\ (Mode = "encode" /\ ~RawOutput) => MetadataOpusBitrate' = want
           /\ b \in {0, 513, 0 - 5} => OpusEncoderBitrate' = 64000
           /\ b \in {1, 512} => OpusEncoderBitrate' = b * 1000]_vars

C13_Witness ==
    /\ pcMain = "wait" /\ Mode = "encode" /\ ~RawOutput
    /\ Bitrate = 512
    /\ OpusEncoderBitrate = 512000 /\ MetadataOpusBitrate = 512000

\* C14: the Reader's channel is closed when, and only when, the Reader has
\* returned; the close discards nothing: a Transformer that returns on the
\* closed channel has consumed every unit the Reader enqueued, and, absent a
\* codec or write failure, a Writer that has returned has written every one
\* of them.
C14_CloseDrains ==
    /\ InputChan.closed <=> pcR = "done"
    /\ (pcT = "done" /\ tLog = "") =>
           /\ InputChan.closed /\ InputChan.buf = << >>
           /\ tCalls = Len(rSent)
    /\ (pcW = "done" /\ tLog = "" /\ ~sinkBroken) =>
           /\ pcT = "done" /\ OutputChan.buf = << >>
           /\ Len(wEmitted) = Len(rSent)

\* C15: once the codec has rejected the k-th unit (k = tCalls) the
\* Transformer has returned and closed its channel and takes no further
\* step: the rejected unit is gone from its input channel and the later
\* units stay there; at most the k - 1 units transformed before are
\* written, and a Writer that has returned without a write failure has
\* written all k - 1 and reported nothing.
C15_CodecErrorStopsTransformer ==
    tLog # "" =>
        /\ pcT = "done" /\ OutputChan.closed
        /\ ~ENABLED (encoderRecv \/ encoderSend \/ decoderRecv \/ decoderSend)
        /\ Len(InputChan.buf) = Len(rSent) - tCalls
        /\ Len(wEmitted) <= tCalls - 1
        /\ (pcW = "done" /\ ~sinkBroken) => (Len(wEmitted) = tCalls - 1 /\ wLog = "")

\* C16: the length prefix the encode Writer writes, read back as an unsigned
\* little-endian 16-bit integer, is the payload length modulo 65536: the
\* length itself up to 65535 (also from 32768 on, through the int16
\* variable), a truncated one above. No error is raised for a longer
\* payload and the payload is written in full, so a decode Reader given the
\* stream takes the truncated length for the first frame.
C16_LengthPrefixModulo ==
    /\ (Mode = "encode" /\ pcW = "chklen" /\ ~wbufErr) =>
           LET out == stdout \o wbuf
           IN Uint16LE(out[Len(out) - 1], out[Len(out)]) = Len(wUnit) % 65536
    /\ (Mode = "encode" /\ pcW = "done" /\ ~sinkBroken) =>
           /\ wLog = ""
           /\ wEmitted = frames
           /\ stdout = (IF RawOutput THEN << >> ELSE ContainerHeader) \o RecordsOf(frames)
    /\ (Mode = "decode" /\ input = RecordsOf(frames) /\ Len(frames) >= 1 /\ Len(rSent) >= 1) =>
           /\ Len(rSent[1]) = Len(frames[1]) % 65536
           /\ Len(frames[1]) > 65535 => rSent[1] # frames[1]

C16_Witness ==
    /\ Mode = "encode" /\ pcW = "chklen" /\ ~wbufErr
    /\ Len(wUnit) = 32768
    /\ wbuf = << 0, 128 >>

\* C17: the decode Reader recognises no header: whatever its input, it takes
\* the first two bytes for a frame length and the bytes after them for the
\* first payload. Reading the output of a non-raw encode run it takes the
\* length 17220 from the magic bytes "DC" and a payload that starts with the
\* rest of the header; what it delivers is not the encoded frames.
C17_HeaderReadAsFrame ==
    (Mode = "decode" /\ Len(input) >= 2) =>
        LET first == input[1] + 256 * input[2]
            headered == input = ContainerHeader \o RecordsOf(frames)
        IN /\ (rSent = << >> /\ pcR \in {"rpay", "chkpay", "send"}) => opuslen = first
           /\ Len(rSent) >= 1 => rSent[1] = SubSeq(input, 3, 2 + first)
           /\ headered =>
                  /\ first = 17220
                  /\ Len(rSent) >= 1 =>
                         /\ SubSeq(rSent[1], 1, 2) = SubSeq(MagicBytes, 3, 4)
                         /\ SubSeq(rSent[1], 3, Len(ContainerHeader) - 2) =
                                LE32(Len(MetadataJSON)) \o MetadataJSON
                         /\ ~IsPrefix(rSent, frames)

C17_Witness ==
    /\ Mode = "decode"
    /\ SubSeq(input, 1, 4) = MagicBytes
    /\ Len(rSent) = 1 /\ Len(rSent[1]) = 17220
    /\ InputChan.buf = rSent

\* The stages that have returned.
Returned == { st \in {"R", "T", "W"} : (IF st = "R" THEN pcR ELSE IF st = "T" THEN pcT ELSE pcW) = "done" }

\* C18: the close protocol. Each channel is closed exactly when its producer
\* has returned: the step that closes it is the producer's return, taken
\* with the channel still open (no double close, and none by the Writer);
\* nothing is sent on a closed channel; and the wait group has counted one
\* Done per returned stage.
C18_CloseProtocol ==
    /\ [](/\ InputChan.closed <=> pcR = "done"
          /\ OutputChan.closed <=> pcT = "done"
          /\ wg = 3 - Cardinality(Returned))
    /\ [][/\ (pcR # "done" /\ pcR' = "done") => (~InputChan.closed /\ InputChan'.closed /\ wg' = wg - 1)
          /\ (pcT # "done" /\ pcT' = "done") => (~OutputChan.closed /\ OutputChan'.closed /\ wg' = wg - 1)
          /\ (pcW # "done" /\ pcW' = "done") =>
                 (InputChan'.closed = InputChan.closed /\ OutputChan'.closed = OutputChan.closed /\ wg' = wg - 1)
          /\ Len(InputChan'.buf) > Len(InputChan.buf) => (~InputChan.closed /\ pcR # "done")
          /\ Len(OutputChan'.buf) > Len(OutputChan.buf) => (~OutputChan.closed /\ pcT # "done")
          /\ (pcR = "done" => pcR' = "done") /\ (pcT = "done" => pcT' = "done")
          /\ (pcW = "done" => pcW' = "done")]_vars

C18_Witness ==
    /\ Returned = {"R", "T", "W"} /\ wg = 0 /\ pcMain = "exit"
    /\ InputChan.closed /\ OutputChan.closed
    /\ Len(wEmitted) >= 2 /\ tLog = "" /\ rLog = "" /\ wLog = ""

\* C19: a Writer that has returned on a failed write does not stall the
\* run: with no read failure, no read error reported and no codec error, as
\* long as main waits some stage can still take a step, also when the input
\* holds more frames than the two channels take.
C19_WriterFailureNoStall ==
    (/\ pcW = "done" /\ wLog # "" /\ sinkBroken
     /\ tLog = "" /\ ~srcBroken /\ rLog = "" /\ ~ReaderCutOff)
    => (pcMain # "wait" \/ ENABLED StallNext)

\* C20: each stage acts on the result of its own I/O, in encode mode from
\* the pipe and in decode mode: a Reader whose read returned end-of-stream
\* or an error never passes its check (it sends nothing more and returns),
\* and a Writer reports a write error only when a write of its own through
\* wbuf has failed.
C20_OwnResultDecides ==
    InFile = Pipe =>
        /\ rMasked = 0
        /\ (pcR = "send" /\ Mode = "encode") => rRes = Nil
        /\ wLog # "" => wbufErr

====
